---- MODULE Spec2Model ----
(***************************************************************************)
(* Licence backend (src/main.py): the PagBank webhook that issues          *)
(* licences and the endpoint that validates them, over a Firestore         *)
(* collection keyed by licence code.                                       *)
(*                                                                         *)
(* Python strings the code computes on (licence codes, the stored status,  *)
(* the provider's status text, the validator's motivo) are sequences of    *)
(* one-character strings, so that upper(), strip(), int() and slicing are  *)
(* computed and not assumed.  Strings the code only passes along (emails,  *)
(* CPFs, transaction ids, the webhook's fixed motivos) are TLA+ strings.   *)
(* Time is counted in days.                                                *)
(***************************************************************************)
EXTENDS Integers, Sequences, FiniteSets, TLC

\* ------------------------------------------------------------------------
\* Bounds of the model
\* ------------------------------------------------------------------------

\* The clock runs from 0 to MaxTime days.
MaxTime == 2

\* At most this many codes are drawn by one run of the collision loop.
MaxSorteios == 2

\* ------------------------------------------------------------------------
\* Python values
\* ------------------------------------------------------------------------

\* None, where the other values are TLA+ strings.
None == "<None>"

\* None, where the other values are sequences of characters.
NoneStr == <<"<None>">>

\* Mutant: the test "is not None" in place of truthiness.
Truthy_SoNone(x) == x /= None

\* Python truthiness of an Optional[str]: None and "" are falsy.
Truthy(x) == x /= None /\ x /= ""

\* The same for a sequence of characters.
TruthyStr(s) == s /= NoneStr /\ s /= <<>>

\* a or b
Or(a, b) == IF Truthy(a) THEN a ELSE b

\* dict.get(k)
Get(d, k) == IF k \in DOMAIN d THEN d[k] ELSE None

Minusculas ==
    <<"a","b","c","d","e","f","g","h","i","j","k","l","m",
      "n","o","p","q","r","s","t","u","v","w","x","y","z">>

Maiusculas ==
    <<"A","B","C","D","E","F","G","H","I","J","K","L","M",
      "N","O","P","Q","R","S","T","U","V","W","X","Y","Z">>

Digitos == <<"0","1","2","3","4","5","6","7","8","9">>

Espacos == {" ", "\t", "\n", "\r"}

UpperChar(c) ==
    IF \E i \in 1..26 : Minusculas[i] = c
    THEN Maiusculas[CHOOSE i \in 1..26 : Minusculas[i] = c]
    ELSE c

LowerChar(c) ==
    IF \E i \in 1..26 : Maiusculas[i] = c
    THEN Minusculas[CHOOSE i \in 1..26 : Maiusculas[i] = c]
    ELSE c

\* str.upper()
Upper(s) == [i \in 1..Len(s) |-> UpperChar(s[i])]

\* str.lower()
Lower(s) == [i \in 1..Len(s) |-> LowerChar(s[i])]

\* s[a:b] for 0 <= a, b (Python slice, clipped to the string)
Slice(s, a, b) ==
    LET hi == IF b < Len(s) THEN b ELSE Len(s)
    IN  IF a >= hi THEN <<>> ELSE SubSeq(s, a + 1, hi)

\* str.strip()
Strip(s) ==
    LET naoEsp == {i \in 1..Len(s) : s[i] \notin Espacos}
    IN  IF naoEsp = {} THEN <<>>
        ELSE LET lo == CHOOSE i \in naoEsp : \A j \in naoEsp : i <= j
                 hi == CHOOSE i \in naoEsp : \A j \in naoEsp : i >= j
             IN  SubSeq(s, lo, hi)

\* str.startswith(p)
StartsWith(s, p) == Len(s) >= Len(p) /\ SubSeq(s, 1, Len(p)) = p

IsDigito(c) == \E i \in 1..10 : Digitos[i] = c

DigitoValor(c) == (CHOOSE i \in 1..10 : Digitos[i] = c) - 1

\* The text int() reads its digits from: stripped, without the sign.
IntCorpo(s) ==
    LET t == Strip(s)
    IN  IF t /= <<>> /\ t[1] \in {"+", "-"} THEN Tail(t) ELSE t

\* int(s) does not raise ValueError: optional blanks, an optional sign, then
\* digits, with single underscores allowed between digits.
IntValido(s) ==
    LET d == IntCorpo(s)
    IN  /\ d /= <<>>
        /\ \A i \in 1..Len(d) : IsDigito(d[i]) \/ d[i] = "_"
        /\ IsDigito(d[1]) /\ IsDigito(d[Len(d)])
        /\ \A i \in 1..(Len(d) - 1) : ~(d[i] = "_" /\ d[i + 1] = "_")

RECURSIVE DigitosValor(_)
DigitosValor(d) ==
    IF d = <<>> THEN 0
    ELSE LET c == d[Len(d)]
             resto == SubSeq(d, 1, Len(d) - 1)
         IN  IF c = "_" THEN DigitosValor(resto)
             ELSE 10 * DigitosValor(resto) + DigitoValor(c)

\* int(s), where IntValido(s)
IntValor(s) ==
    LET t == Strip(s)
        v == DigitosValor(IntCorpo(s))
    IN  IF t[1] = "-" THEN 0 - v ELSE v

\* ------------------------------------------------------------------------
\* Configuration and state
\* ------------------------------------------------------------------------

VARIABLES
    db,                     \* TRUE: the Firestore client was created; FALSE: db is None
    smtp_configurado,       \* SMTP_HOST, SMTP_USER, SMTP_PASSWORD and FROM_EMAIL are all set
    pagbank_credenciais,    \* PAGBANK_EMAIL and PAGBANK_TOKEN are both set
    DEFAULT_LICENCE_DAYS,   \* int(os.getenv("LICENCE_DAYS", "30"))
    store,                  \* the collection: licence code -> document
    agora,                  \* datetime.now(timezone.utc), in days
    emails,                 \* the deliveries attempted over SMTP: <<to, code>>
    last,                   \* the last request served: its response and what it did
    reportadas,             \* the codes a validation has answered LICENCA_EXPIRADA for
    req                     \* the webhook requests in flight, where requests overlap

vars ==
    <<db, smtp_configurado, pagbank_credenciais, DEFAULT_LICENCE_DAYS,
      store, agora, emails, last, reportadas, req>>

config == <<db, smtp_configurado, pagbank_credenciais, DEFAULT_LICENCE_DAYS>>

\* The process configurations explored: a working one with LICENCE_DAYS=1,
\* and each setting off it.
Configuracoes ==
    LET normal == [db |-> TRUE, smtp |-> TRUE, pagbank |-> TRUE, dias |-> 1]
    IN  { normal,
          [normal EXCEPT !.db = FALSE],
          [normal EXCEPT !.smtp = FALSE],
          [normal EXCEPT !.pagbank = FALSE],
          [normal EXCEPT !.dias = 0] }

ATIVO == <<"a","t","i","v","o">>

EXPIRADO == <<"e","x","p","i","r","a","d","o">>

LICENCA_ == <<"L","I","C","E","N","C","A","_">>

\* Mutant: another reason for a code that has no document.
LICENCA_INEXISTENTE_Outra == LICENCA_ \o <<"I","N","V","A","L","I","D","A">>

LICENCA_INEXISTENTE == LICENCA_ \o <<"I","N","E","X","I","S","T","E","N","T","E">>

LICENCA_EXPIRADA == LICENCA_ \o <<"E","X","P","I","R","A","D","A">>

\* isoformat as it would be if the response carried the time of the request
\* in place of the datetime it was given.
isoformat_Agora(t) == <<"iso8601", agora>>

\* datetime.isoformat(): the instant as ISO 8601 text
isoformat(t) == <<"iso8601", t>>

\* ------------------------------------------------------------------------
\* Code generator
\* ------------------------------------------------------------------------

\* tamanho: the number of characters drawn for a code
Tamanho == 8

\* caracteres = string.ascii_uppercase + string.digits
Caracteres == Maiusculas \o Digitos

\* The outcomes of "".join(random.choice(caracteres) for _ in range(tamanho))
\* that are explored: this is the keyspace of the model.
Bases ==
    { b \in { <<"A","B","1","2","C","D","3","4">>,
              <<"Z","9","Z","9","Q","0","Q","0">> } :
        /\ Len(b) = Tamanho
        /\ \A i \in 1..Len(b) : \E j \in 1..Len(Caracteres) : Caracteres[j] = b[i] }

\* gerar_codigo_licenca, given the characters drawn
gerar_codigo_licenca(base) == Slice(base, 0, 4) \o <<"-">> \o Slice(base, 4, Len(base))

\* Every code the generator can return
Codigos == {gerar_codigo_licenca(b) : b \in Bases}

\* ------------------------------------------------------------------------
\* Store
\* ------------------------------------------------------------------------

\* Mutant: the probe looks where no licence is stored.
Exists_Nunca(s, codigo) == FALSE

\* doc_ref.get().exists
Exists(s, codigo) == codigo \in DOMAIN s

\* doc_ref.set(doc): creates the document or overwrites it whole
DocSet(s, codigo, doc) ==
    [c \in DOMAIN s \cup {codigo} |-> IF c = codigo THEN doc ELSE s[c]]

\* Mutant: the update is lost.
DocUpdateStatus_Perdido(s, codigo, novo) == s

\* Mutant: the update also moves the expiry to the time of the request.
DocUpdateStatus_EExpira(s, codigo, novo) ==
    [s EXCEPT ![codigo].status = novo, ![codigo].expira_em = agora]

\* doc_ref.update({"status": novo}): one field of an existing document
DocUpdateStatus(s, codigo, novo) == [s EXCEPT ![codigo].status = novo]

\* The document criar_documento_licenca writes
NovoDocumento(email, cpf, id_transacao_pagbank, plano) ==
    [ email |-> email,
      cpf |-> cpf,
      status |-> ATIVO,
      compra_em |-> agora,
      expira_em |-> agora + DEFAULT_LICENCE_DAYS,
      plano |-> plano,
      origem_pagamento |-> "pagbank",
      id_transacao_pagbank |-> id_transacao_pagbank ]

\* criar_documento_licenca: the store after the write
criar_documento_licenca(codigo, email, cpf, id_transacao_pagbank, plano) ==
    DocSet(store, codigo, NovoDocumento(email, cpf, id_transacao_pagbank, plano))

\* buscar_licenca: the document, where the code has one
buscar_licenca(codigo) == store[codigo]

\* ------------------------------------------------------------------------
\* PagBank: the notifications it sends and what its lookup answers
\* ------------------------------------------------------------------------

\* The notification codes PagBank delivers.
Notificacoes == {"N1", "N2", "N3", "N4", "N5", "N6", "N7", "N8"}

\* The <transaction> document PagBank holds for a notification: the text of
\* each element findtext reads (None: no such element, "": an empty one).
Transacao(n) ==
    CASE n = "N1" -> [status |-> <<"3">>, code |-> "T1", reference |-> "R1",
                      email |-> "a@b.com", doc_value |-> "11122233344"]
      [] n = "N2" -> [status |-> <<" ", "4">>, code |-> None, reference |-> None,
                      email |-> "c@d.com", doc_value |-> None]
      [] n = "N3" -> [status |-> <<"7">>, code |-> "T3", reference |-> "R3",
                      email |-> "a@b.com", doc_value |-> ""]
      [] n = "N4" -> [status |-> <<"3">>, code |-> "T4", reference |-> None,
                      email |-> None, doc_value |-> "11122233344"]
      [] n = "N5" -> [status |-> <<"4">>, code |-> "T5", reference |-> None,
                      email |-> "", doc_value |-> None]
      [] n = "N6" -> [status |-> NoneStr, code |-> "T6", reference |-> None,
                      email |-> "a@b.com", doc_value |-> None]
      [] n = "N8" -> [status |-> <<"1">>, code |-> "T8", reference |-> None,
                      email |-> None, doc_value |-> None]
      [] OTHER    -> [status |-> <<"3", ".", "0">>, code |-> "T7", reference |-> None,
                      email |-> "a@b.com", doc_value |-> None]

\* What requests.get can come back with for a notification: an exception, a
\* non-200 answer (its body the transaction's document all the same), a 200
\* answer that is not XML, the transaction's document.
RespostasPagBank(n) ==
    { [excecao |-> TRUE,  status_code |-> 0,   xml_valido |-> FALSE, root |-> Transacao(n)],
      [excecao |-> FALSE, status_code |-> 404, xml_valido |-> TRUE,  root |-> Transacao(n)],
      [excecao |-> FALSE, status_code |-> 200, xml_valido |-> FALSE, root |-> Transacao(n)],
      [excecao |-> FALSE, status_code |-> 200, xml_valido |-> TRUE,  root |-> Transacao(n)] }

\* consultar_notificacao_pagbank returned None
NoneInfo ==
    [nulo |-> TRUE, status |-> NoneStr, transaction_code |-> None,
     reference |-> None, email |-> None, cpf |-> None]

\* Mutant: the answer's status code is not looked at.
consultar_notificacao_pagbank_SemStatus(notification_code, resp) ==
    IF ~pagbank_credenciais THEN NoneInfo
    ELSE IF resp.excecao THEN NoneInfo
    ELSE IF ~resp.xml_valido THEN NoneInfo
    ELSE [ nulo |-> FALSE,
           status |-> resp.root.status,
           transaction_code |-> resp.root.code,
           reference |-> resp.root.reference,
           email |-> resp.root.email,
           cpf |-> IF Truthy(resp.root.doc_value) THEN resp.root.doc_value ELSE None ]

\* consultar_notificacao_pagbank, given what requests.get came back with
consultar_notificacao_pagbank(notification_code, resp) ==
    IF ~pagbank_credenciais THEN NoneInfo
    ELSE IF resp.excecao THEN NoneInfo
    ELSE IF resp.status_code /= 200 THEN NoneInfo
    ELSE IF ~resp.xml_valido THEN NoneInfo
    ELSE [ nulo |-> FALSE,
           status |-> resp.root.status,
           transaction_code |-> resp.root.code,
           reference |-> resp.root.reference,
           email |-> resp.root.email,
           cpf |-> IF Truthy(resp.root.doc_value) THEN resp.root.doc_value ELSE None ]

\* Mutant: only status 3 counts as paid.
status_pagbank_e_pago_So3(status_str) ==
    TruthyStr(status_str) /\ IntValido(status_str) /\ IntValor(status_str) = 3

\* status_pagbank_e_pago
status_pagbank_e_pago(status_str) ==
    IF ~TruthyStr(status_str) THEN FALSE
    ELSE IF ~IntValido(status_str) THEN FALSE
    ELSE IntValor(status_str) \in {3, 4}

\* ------------------------------------------------------------------------
\* Webhook payloads
\* ------------------------------------------------------------------------

FORM_URLENCODED == "application/x-www-form-urlencoded"

\* "application/x-www-form-urlencoded" in content_type
EhFormUrlencoded(content_type) ==
    content_type \in {FORM_URLENCODED, "application/x-www-form-urlencoded; charset=UTF-8"}

\* The empty dict
Vazio == <<>>

\* The request bodies sent to the webhook: content type, the syntax of the
\* body (form, json or neither), and the body's fields.
Payloads ==
    { [content_type |-> FORM_URLENCODED, forma |-> "form",
       campos |-> [notificationCode |-> n, notificationType |-> "transaction"]]
      : n \in Notificacoes \ {"N2", "N3"} }
    \cup
    { [content_type |-> "application/x-www-form-urlencoded; charset=UTF-8",
       forma |-> "form", campos |-> [notification_code |-> "N3"]],
      [content_type |-> "application/json", forma |-> "json",
       campos |-> [notificationCode |-> "", notification_code |-> "N2"]],
      [content_type |-> "application/json", forma |-> "json",
       campos |-> [status |-> "PAID", transaction_id |-> "T1", customer_email |-> "a@b.com"]],
      [content_type |-> FORM_URLENCODED, forma |-> "form",
       campos |-> [notificationType |-> "transaction"]],
      [content_type |-> FORM_URLENCODED, forma |-> "lixo", campos |-> Vazio],
      [content_type |-> "text/plain", forma |-> "form",
       campos |-> [notificationCode |-> "N1"]] }

\* parse_qs(body_text), first value of each key
ParseQs(payload) == IF payload.forma = "form" THEN payload.campos ELSE Vazio

\* Mutant: the transaction id of the body stands in for a missing
\* notification code.
ExtrairNotificationCode_ComId(payload) ==
    LET data_form ==
            IF EhFormUrlencoded(payload.content_type) THEN ParseQs(payload) ELSE Vazio
        do_form ==
            IF DOMAIN data_form /= {}
            THEN Or(Get(data_form, "notificationCode"), Get(data_form, "notification_code"))
            ELSE None
    IN  IF Truthy(do_form) THEN do_form
        ELSE IF payload.forma = "json"
             THEN Or(Or(Get(payload.campos, "notificationCode"),
                        Get(payload.campos, "notification_code")),
                     Get(payload.campos, "transaction_id"))
             ELSE do_form

\* The notificationCode the webhook reads off the request (lines 337-369)
ExtrairNotificationCode(payload) ==
    LET data_form ==
            IF EhFormUrlencoded(payload.content_type) THEN ParseQs(payload) ELSE Vazio
        do_form ==
            IF DOMAIN data_form /= {}
            THEN Or(Get(data_form, "notificationCode"), Get(data_form, "notification_code"))
            ELSE None
    IN  IF Truthy(do_form) THEN do_form
        ELSE IF payload.forma = "json"
             THEN Or(Get(payload.campos, "notificationCode"),
                     Get(payload.campos, "notification_code"))
             ELSE do_form

\* ------------------------------------------------------------------------
\* POST /pagbank/webhook
\* ------------------------------------------------------------------------

\* The response FastAPI gives when the handler raises
ERRO_500 == [detail |-> "Internal Server Error"]

\* The codes gerar_codigo_licenca returns to one run of the collision loop,
\* in order
Sorteios == UNION {[1..k -> Codigos] : k \in 1..MaxSorteios}

\* Mutant: the first code drawn is used without probing the store.
Sortear_SemSonda(sorteio, i) == i

\* The while loop of lines 404-406 over the draws: the number of draws up to
\* the first code the store does not hold, 0 when every draw is taken.
RECURSIVE Sortear(_, _)
Sortear(sorteio, i) ==
    IF i > Len(sorteio) THEN 0
    ELSE IF Exists(store, sorteio[i]) THEN Sortear(sorteio, i + 1)
    ELSE i

\* The handler ends: its response, what it did, and the state it leaves.
WebhookFim(http, corpo, pedido, notification_code, info, falha, tentativas, escritas, novoStore, novosEmails) ==
    /\ last' = [ op |-> "webhook", http |-> http, corpo |-> corpo,
                 payload |-> pedido.payload, consulta |-> pedido.consulta,
                 notification_code |-> notification_code, info |-> info,
                 falha |-> falha, tentativas |-> tentativas, escritas |-> escritas ]
    /\ store' = novoStore
    /\ emails' = novosEmails
    /\ UNCHANGED <<config, agora, reportadas, req>>

\* Mutant: the email is sent before the document is written.
Emitir_EmailAntes(pedido, notification_code, info, sorteio, falha) ==
    LET transaction_code == Or(info.transaction_code, notification_code)
        n == Sortear(sorteio, 1)
        codigo == sorteio[n]
        escrita == [op |-> "set", codigo |-> codigo, ok |-> falha /= "set"]
        gravado == criar_documento_licenca(codigo, info.email, info.cpf,
                                           transaction_code, "mensal")
        enviados == IF smtp_configurado THEN emails \cup {<<info.email, codigo>>}
                    ELSE emails
    IN  IF falha = "probe"
        THEN /\ \A i \in 1..(Len(sorteio) - 1) : Exists(store, sorteio[i])
             /\ WebhookFim(500, ERRO_500, pedido, notification_code, info, falha, Len(sorteio),
                           <<>>, store, emails)
        ELSE /\ n = Len(sorteio)
             /\ n > 0
             /\ falha = "smtp" => smtp_configurado
             /\ IF falha = "set"
                THEN WebhookFim(500, ERRO_500, pedido, notification_code, info, falha, n,
                                <<escrita>>, store, enviados)
                ELSE IF falha = "smtp"
                THEN WebhookFim(500, ERRO_500, pedido, notification_code, info, falha, n,
                                <<>>, store, enviados)
                ELSE WebhookFim(200,
                                [ ok |-> TRUE, licenca_gerada |-> codigo,
                                  status_pagbank |-> info.status, email |-> info.email ],
                                pedido, notification_code, info, falha, n,
                                <<escrita>>, gravado, enviados)

\* Lines 399-428: the store is probed for a free code, the document is
\* written, the email is sent.  falha is the call that raises, if one does.
Emitir(pedido, notification_code, info, sorteio, falha) ==
    LET transaction_code == Or(info.transaction_code, notification_code)
        n == Sortear(sorteio, 1)
        codigo == sorteio[n]
        escrita == [op |-> "set", codigo |-> codigo, ok |-> falha /= "set"]
        gravado == criar_documento_licenca(codigo, info.email, info.cpf,
                                           transaction_code, "mensal")
        enviados == IF smtp_configurado THEN emails \cup {<<info.email, codigo>>}
                    ELSE emails
    IN  IF falha = "probe"
        THEN /\ \A i \in 1..(Len(sorteio) - 1) : Exists(store, sorteio[i])
             /\ WebhookFim(500, ERRO_500, pedido, notification_code, info, falha, Len(sorteio),
                           <<>>, store, emails)
        ELSE /\ n = Len(sorteio)
             /\ n > 0
             /\ falha = "smtp" => smtp_configurado
             /\ IF falha = "set"
                THEN WebhookFim(500, ERRO_500, pedido, notification_code, info, falha, n,
                                <<escrita>>, store, emails)
                ELSE IF falha = "smtp"
                THEN WebhookFim(500, ERRO_500, pedido, notification_code, info, falha, n,
                                <<escrita>>, gravado, enviados)
                ELSE WebhookFim(200,
                                [ ok |-> TRUE, licenca_gerada |-> codigo,
                                  status_pagbank |-> info.status, email |-> info.email ],
                                pedido, notification_code, info, falha, n,
                                <<escrita>>, gravado, enviados)

\* What became of the lookup, for the record of the request: no lookup
\* without credentials, else the kind of answer requests.get came back with.
Consulta(resp) ==
    IF ~pagbank_credenciais THEN "sem_credenciais"
    ELSE IF resp.excecao THEN "excecao"
    ELSE IF resp.status_code /= 200 THEN "http"
    ELSE IF ~resp.xml_valido THEN "xml"
    ELSE "ok"

\* Mutant: the store is checked before the email and the status.
pagbank_webhook_DbPrimeiro ==
    \E payload \in Payloads :
        LET notification_code == ExtrairNotificationCode(payload)
            semConsulta == [payload |-> payload, consulta |-> "nenhuma"]
        IN  IF ~Truthy(notification_code)
            THEN WebhookFim(400, [detail |-> "notificationCode nao encontrado no payload"],
                            semConsulta, notification_code, NoneInfo, "nenhuma", 0, <<>>,
                            store, emails)
            ELSE \E resp \in RespostasPagBank(notification_code) :
                LET info == consultar_notificacao_pagbank(notification_code, resp)
                    pedido == [payload |-> payload, consulta |-> Consulta(resp)]
                IN  IF info.nulo
                    THEN WebhookFim(200, [ok |-> FALSE, motivo |-> "FALHA_CONSULTA_PAGBANK"],
                                    pedido, notification_code, info, "nenhuma", 0, <<>>,
                                    store, emails)
                    ELSE IF ~db
                    THEN WebhookFim(200, [ok |-> FALSE, motivo |-> "FIRESTORE_INDISPONIVEL"],
                                    pedido, notification_code, info, "nenhuma", 0, <<>>,
                                    store, emails)
                    ELSE IF ~Truthy(info.email)
                    THEN WebhookFim(200, [ok |-> FALSE, motivo |-> "SEM_EMAIL_CLIENTE"],
                                    pedido, notification_code, info, "nenhuma", 0, <<>>,
                                    store, emails)
                    ELSE IF ~status_pagbank_e_pago(info.status)
                    THEN WebhookFim(200, [ok |-> TRUE, ignored |-> TRUE, status |-> info.status],
                                    pedido, notification_code, info, "nenhuma", 0, <<>>,
                                    store, emails)
                    ELSE \E sorteio \in Sorteios :
                            \E falha \in {"nenhuma", "probe", "set", "smtp"} :
                                Emitir(pedido, notification_code, info, sorteio, falha)

pagbank_webhook ==
    \E payload \in Payloads :
        LET notification_code == ExtrairNotificationCode(payload)
            semConsulta == [payload |-> payload, consulta |-> "nenhuma"]
        IN  IF ~Truthy(notification_code)
            THEN WebhookFim(400, [detail |-> "notificationCode nao encontrado no payload"],
                            semConsulta, notification_code, NoneInfo, "nenhuma", 0, <<>>,
                            store, emails)
            ELSE \E resp \in RespostasPagBank(notification_code) :
                LET info == consultar_notificacao_pagbank(notification_code, resp)
                    pedido == [payload |-> payload, consulta |-> Consulta(resp)]
                IN  IF info.nulo
                    THEN WebhookFim(200, [ok |-> FALSE, motivo |-> "FALHA_CONSULTA_PAGBANK"],
                                    pedido, notification_code, info, "nenhuma", 0, <<>>,
                                    store, emails)
                    ELSE IF ~Truthy(info.email)
                    THEN WebhookFim(200, [ok |-> FALSE, motivo |-> "SEM_EMAIL_CLIENTE"],
                                    pedido, notification_code, info, "nenhuma", 0, <<>>,
                                    store, emails)
                    ELSE IF ~status_pagbank_e_pago(info.status)
                    THEN WebhookFim(200, [ok |-> TRUE, ignored |-> TRUE, status |-> info.status],
                                    pedido, notification_code, info, "nenhuma", 0, <<>>,
                                    store, emails)
                    ELSE IF ~db
                    THEN WebhookFim(200, [ok |-> FALSE, motivo |-> "FIRESTORE_INDISPONIVEL"],
                                    pedido, notification_code, info, "nenhuma", 0, <<>>,
                                    store, emails)
                    ELSE \E sorteio \in Sorteios :
                            \E falha \in {"nenhuma", "probe", "set", "smtp"} :
                                Emitir(pedido, notification_code, info, sorteio, falha)

\* ------------------------------------------------------------------------
\* POST /licencas/validar
\* ------------------------------------------------------------------------

\* The ways a client writes a code: as issued, or in lower case behind the
\* "@#" marker with blanks around.
Apresentacoes(c) ==
    { c,
      <<" ", "@", "#", " ">> \o Lower(c) \o <<"\n">> }

\* The texts sent as body.licenca
Apresentadas == UNION {Apresentacoes(c) : c \in Codigos} \cup {<<"x">>}

\* Lines 438-441: the code looked up for the text presented
Normalizar(licenca) ==
    LET codigo == Upper(Strip(licenca))
    IN  IF StartsWith(codigo, <<"@", "#">>)
        THEN Upper(Strip(Slice(codigo, 2, Len(codigo))))
        ELSE codigo

\* LicencaValidarResponse
LicencaValidarResponse(ok, motivo, expira_em) ==
    [ok |-> ok, motivo |-> motivo, expira_em |-> expira_em, api_key_meudanfe |-> None]

\* The handler ends: its response, what it did, and the state it leaves.
ValidarFim(http, corpo, codigo, falha, escritas, novoStore) ==
    /\ last' = [ op |-> "validar", http |-> http, corpo |-> corpo,
                 codigo |-> codigo, falha |-> falha, escritas |-> escritas ]
    /\ store' = novoStore
    /\ reportadas' =
          IF http = 200 /\ corpo.motivo = LICENCA_EXPIRADA
          THEN reportadas \cup {codigo} ELSE reportadas
    /\ UNCHANGED <<config, agora, emails, req>>

\* Lines 443-481, where the store is read.  falha is the call that raises, if
\* one does.
Validar(codigo, falha) ==
    IF falha = "get"
    THEN ValidarFim(500, ERRO_500, codigo, falha, <<>>, store)
    ELSE IF ~Exists(store, codigo)
    THEN /\ falha = "nenhuma"
         /\ ValidarFim(200, LicencaValidarResponse(FALSE, LICENCA_INEXISTENTE, NoneStr),
                       codigo, falha, <<>>, store)
    ELSE
        LET lic == buscar_licenca(codigo)
            status == lic.status
            expira_dt == lic.expira_em
            escrita == [op |-> "update", codigo |-> codigo, ok |-> falha /= "update"]
        IN  IF status /= ATIVO
            THEN /\ falha = "nenhuma"
                 /\ ValidarFim(200,
                               LicencaValidarResponse(FALSE, LICENCA_ \o Upper(status), NoneStr),
                               codigo, falha, <<>>, store)
            ELSE IF expira_dt < agora
            THEN IF falha = "update"
                 THEN ValidarFim(500, ERRO_500, codigo, falha, <<escrita>>, store)
                 ELSE ValidarFim(200,
                                 LicencaValidarResponse(FALSE, LICENCA_EXPIRADA,
                                                        isoformat(expira_dt)),
                                 codigo, falha, <<escrita>>,
                                 DocUpdateStatus(store, codigo, EXPIRADO))
            ELSE /\ falha = "nenhuma"
                 /\ ValidarFim(200, LicencaValidarResponse(TRUE, NoneStr, isoformat(expira_dt)),
                               codigo, falha, <<>>, store)

\* Normalizar over the texts presented
CodigoDe == [licenca \in Apresentadas |-> Normalizar(licenca)]

validar_licenca ==
    \E licenca \in Apresentadas :
        LET codigo == CodigoDe[licenca]
        IN  IF ~db
            THEN ValidarFim(500, ERRO_500, codigo, "db", <<>>, store)
            ELSE \E falha \in {"nenhuma", "get", "update"} : Validar(codigo, falha)

\* ------------------------------------------------------------------------
\* The system
\* ------------------------------------------------------------------------

\* The server processes that handle webhook requests at the same time.
Workers == {"w1", "w2"}

\* A process that is serving no webhook request.
Livre ==
    [fase |-> "livre", notification_code |-> None, info |-> NoneInfo,
     codigo |-> <<>>, visto |-> {}, redesenhou |-> FALSE]

\* No webhook request is in flight.
SemPedidos == [w \in Workers |-> Livre]

\* Time passes between requests.
Relogio ==
    /\ agora < MaxTime
    /\ agora' = agora + 1
    /\ UNCHANGED <<config, store, emails, last, reportadas, req>>

Init ==
    /\ \E c \in Configuracoes :
          /\ db = c.db
          /\ smtp_configurado = c.smtp
          /\ pagbank_credenciais = c.pagbank
          /\ DEFAULT_LICENCE_DAYS = c.dias
    /\ store = Vazio
    /\ agora = 0
    /\ emails = {}
    /\ last = [op |-> "nenhuma"]
    /\ reportadas = {}
    /\ req = SemPedidos

Next ==
    \/ pagbank_webhook
    \/ validar_licenca
    \/ Relogio

Spec == Init /\ [][Next]_vars

\* ------------------------------------------------------------------------
\* The webhook, one store call at a time
\* ------------------------------------------------------------------------
\* Lines 403-428 make one blocking call after another: the probe of each
\* draw, the write, the email.  Between two calls of one request, another
\* server process can make its own.  req[w] is where the request of process w
\* stands: the values of its local variables, the codes the store held at
\* its last probe (visto), and whether it has had to draw again.  The store
\* and SMTP calls succeed here; their failures are in Emitir.

\* Lines 316-401: a request arrives and passes every check before the loop.
Chegar(w) ==
    /\ req[w].fase = "livre"
    /\ \E payload \in Payloads :
        LET notification_code == ExtrairNotificationCode(payload)
        IN  /\ Truthy(notification_code)
            /\ \E resp \in RespostasPagBank(notification_code) :
                LET info == consultar_notificacao_pagbank(notification_code, resp)
                IN  /\ ~info.nulo
                    /\ Truthy(info.email)
                    /\ status_pagbank_e_pago(info.status)
                    /\ db
                    /\ req' = [req EXCEPT ![w] =
                                 [Livre EXCEPT !.fase = "sondar",
                                               !.notification_code = notification_code,
                                               !.info = info]]
    /\ UNCHANGED <<config, store, agora, emails, last, reportadas>>

\* Mutant: the loop is left with the first draw, whatever the store answers.
Sondar_SemPergunta(w, codigo) ==
    /\ req[w].fase = "sondar"
    /\ req' = [req EXCEPT ![w] =
                 [@ EXCEPT !.fase = "gravar", !.codigo = codigo, !.visto = DOMAIN store]]
    /\ UNCHANGED <<config, store, agora, emails, last, reportadas>>

\* Lines 403-406: codigo is drawn and the store is asked whether it exists;
\* if it does the loop goes round, if not the loop is left with codigo.
Sondar(w, codigo) ==
    /\ req[w].fase = "sondar"
    /\ req' = [req EXCEPT ![w] =
                 IF Exists(store, codigo)
                 THEN [@ EXCEPT !.redesenhou = TRUE]
                 ELSE [@ EXCEPT !.fase = "gravar", !.codigo = codigo,
                                !.visto = DOMAIN store]]
    /\ UNCHANGED <<config, store, agora, emails, last, reportadas>>

\* Lines 408-414: the document is written under the code the loop left.
Gravar(w) ==
    /\ req[w].fase = "gravar"
    /\ store' = criar_documento_licenca(req[w].codigo, req[w].info.email, req[w].info.cpf,
                                        Or(req[w].info.transaction_code,
                                           req[w].notification_code),
                                        "mensal")
    /\ req' = [req EXCEPT ![w].fase = "enviar"]
    /\ UNCHANGED <<config, agora, emails, last, reportadas>>

\* Lines 416-428: the email is sent and the request is answered.
Enviar(w) ==
    /\ req[w].fase = "enviar"
    /\ emails' = IF smtp_configurado
                 THEN emails \cup {<<req[w].info.email, req[w].codigo>>}
                 ELSE emails
    /\ last' = [ op |-> "emissao", http |-> 200,
                 corpo |-> [ ok |-> TRUE, licenca_gerada |-> req[w].codigo,
                             status_pagbank |-> req[w].info.status,
                             email |-> req[w].info.email ] ]
    /\ req' = [req EXCEPT ![w] = Livre]
    /\ UNCHANGED <<config, store, agora, reportadas>>

\* The requests start where the store is available: without it none
\* reaches line 403.
InitPassos == Init /\ db

\* Two server processes serve webhook requests at the same time.
NextConcorrente ==
    \/ \E w \in Workers : Chegar(w)
    \/ \E w \in Workers : \E codigo \in Codigos : Sondar(w, codigo)
    \/ \E w \in Workers : Gravar(w)
    \/ \E w \in Workers : Enviar(w)
    \/ Relogio

SpecConcorrente == InitPassos /\ [][NextConcorrente]_vars

\* One request at a time goes through the loop of lines 403-406.
NextLaco ==
    \/ Chegar("w1")
    \/ \E codigo \in Codigos : Sondar("w1", codigo)
    \/ Gravar("w1")
    \/ Enviar("w1")
    \/ Relogio

\* random.choice is fair: a code that stays possible is drawn sooner or
\* later; and the handler, once out of the loop, goes on to its next call.
SpecLaco ==
    /\ InitPassos
    /\ [][NextLaco]_vars
    /\ \A codigo \in Codigos : WF_vars(Sondar("w1", codigo))
    /\ WF_vars(Gravar("w1"))

\* ------------------------------------------------------------------------
\* Properties
\* ------------------------------------------------------------------------

\* A step that serves a validation request / a webhook request.  (A request
\* that leaves every variable as it was is a stuttering step.)
PassoValidar == last'.op = "validar" /\ agora' = agora

PassoWebhook == last'.op = "webhook" /\ agora' = agora

\* The stored texts of the two states of a licence
TxtAtivo == <<"a","t","i","v","o">>

TxtExpirado == <<"e","x","p","i","r","a","d","o">>

\* The validator's reasons, as the client reads them
TxtLicencaInexistente ==
    <<"L","I","C","E","N","C","A","_","I","N","E","X","I","S","T","E","N","T","E">>

TxtLicencaExpirada ==
    <<"L","I","C","E","N","C","A","_","E","X","P","I","R","A","D","A">>

TxtLicencaExpirado ==
    <<"L","I","C","E","N","C","A","_","E","X","P","I","R","A","D","O">>

\* The status texts that read as the numbers 3 and 4
StatusPagos == {<<"3">>, <<"4">>, <<" ", "4">>}

\* The last request was a webhook that issued the licence it reports.
Emitiu == last.op = "webhook" /\ last.http = 200 /\ "licenca_gerada" \in DOMAIN last.corpo

\* C1: over any sequence of webhook and validation requests every stored
\* record stays stored, and its status changes only from 'ativo' to
\* 'expirado': a record that is 'expirado' is 'expirado' in every later state.
C1_StatusSoExpira ==
    [][ \A c \in DOMAIN store :
          /\ c \in DOMAIN store'
          /\ store[c].status \in {TxtAtivo, TxtExpirado}
          /\ store[c].status = TxtExpirado => store'[c].status = TxtExpirado
          /\ store'[c].status /= store[c].status
                => store[c].status = TxtAtivo /\ store'[c].status = TxtExpirado ]_vars

\* C1 witness: a licence was issued while the store held an expired record.
C1_Witness ==
    /\ Emitiu
    /\ \E c \in DOMAIN store : store[c].status = TxtExpirado

\* C2: with the store answering, validating a code whose record is 'ativo'
\* with expira_em before now returns ok=false, LICENCA_EXPIRADA, issues exactly
\* one update, and that update sets the status of that record to 'expirado';
\* validating a code whose record is 'expirado' (the second validation)
\* returns ok=false, LICENCA_EXPIRADO and writes nothing.
C2_ExpiraUmaVez ==
    [][ PassoValidar /\ last'.falha = "nenhuma" /\ last'.codigo \in DOMAIN store =>
          LET c == last'.codigo
          IN  /\ store[c].status = TxtAtivo /\ store[c].expira_em < agora =>
                    /\ last'.http = 200
                    /\ last'.corpo.ok = FALSE
                    /\ last'.corpo.motivo = TxtLicencaExpirada
                    /\ last'.escritas = <<[op |-> "update", codigo |-> c, ok |-> TRUE]>>
                    /\ store' = [store EXCEPT ![c].status = TxtExpirado]
              /\ store[c].status = TxtExpirado =>
                    /\ last'.http = 200
                    /\ last'.corpo.ok = FALSE
                    /\ last'.corpo.motivo = TxtLicencaExpirado
                    /\ last'.escritas = <<>>
                    /\ store' = store ]_vars

\* C2 witness: a validation has answered LICENCA_EXPIRADO, which takes an
\* earlier validation to have expired the record.
C2_Witness ==
    /\ last.op = "validar"
    /\ last.http = 200
    /\ last.corpo.motivo = TxtLicencaExpirado
    /\ store[last.codigo].status = TxtExpirado

\* C3 (as claimed): when validation finds an 'ativo' record past its
\* expiration and the status update fails, the response is still ok=false
\* with LICENCA_EXPIRADA and the record stays 'ativo'.
C3_UpdateFalhoAindaReporta ==
    last.op = "validar" /\ last.falha = "update" =>
        /\ store[last.codigo].status = TxtAtivo
        /\ last.http = 200
        /\ last.corpo.ok = FALSE
        /\ last.corpo.motivo = TxtLicencaExpirada

\* C4 (as claimed): when the email delivery fails after the record was
\* written, the record stays in the store with status 'ativo' and the webhook
\* still answers 200 with ok=true and the code generated.
C4_EmailFalhoNaoFalha ==
    last.op = "webhook" /\ last.falha = "smtp" =>
        /\ last.escritas[1].codigo \in DOMAIN store
        /\ store[last.escritas[1].codigo].status = TxtAtivo
        /\ last.http = 200
        /\ last.corpo.ok = TRUE
        /\ last.corpo.licenca_gerada = last.escritas[1].codigo

\* C5 (as claimed): every webhook request is answered 200 or 400; 400 exactly
\* when no notification code was read off the payload; and a 200 that issued
\* no licence carries a reason (motivo, or ignored=true).
C5_So200Ou400 ==
    last.op = "webhook" =>
        /\ last.http \in {200, 400}
        /\ last.http = 400 <=> last.notification_code \in {None, ""}
        /\ last.http = 200 /\ "licenca_gerada" \notin DOMAIN last.corpo =>
              \/ "motivo" \in DOMAIN last.corpo
              \/ "ignored" \in DOMAIN last.corpo

\* C6 (as claimed): the store holds at most one record for a transaction.
C6_UmRegistroPorTransacao ==
    \A c1, c2 \in DOMAIN store :
        store[c1].id_transacao_pagbank = store[c2].id_transacao_pagbank => c1 = c2

\* C7: a webhook request whose notification resolves to a paid status (3 or 4)
\* without a purchaser email writes no record and sends no email, and every
\* stored record and every email sent has a non-empty email address.
C7_SemEmailNaoEmite ==
    [][ /\ PassoWebhook /\ ~last'.info.nulo /\ last'.info.status \in StatusPagos
           /\ last'.info.email \in {None, ""} =>
              /\ store' = store
              /\ emails' = emails
              /\ last'.escritas = <<>>
              /\ "licenca_gerada" \notin DOMAIN last'.corpo
        /\ \A c \in DOMAIN store' : store'[c].email \notin {None, ""}
        /\ \A m \in emails' : m[1] \notin {None, ""} ]_vars

\* C7 witness: a paid notification without email was answered while the store
\* held a record.
C7_Witness ==
    /\ last.op = "webhook"
    /\ ~last.info.nulo
    /\ last.info.status = <<"3">>
    /\ last.info.email = None
    /\ DOMAIN store /= {}

\* C8: handled one after another, an issuance that writes its record writes it
\* under a code the store did not hold, also when the codes drawn first were
\* taken: the store gains exactly one record and every record it held is left
\* as it was; a response reporting a code generated reports the code written.
C8_EmissoesDistintas ==
    [][ PassoWebhook =>
          /\ \/ last'.escritas = <<>>
             \/ last'.escritas[1].ok = FALSE
             \/ LET c == last'.escritas[1].codigo
                IN  /\ c \notin DOMAIN store
                    /\ DOMAIN store' = DOMAIN store \cup {c}
                    /\ Cardinality(DOMAIN store') = Cardinality(DOMAIN store) + 1
                    /\ \A d \in DOMAIN store : store'[d] = store[d]
          /\ last'.http = 200 /\ "licenca_gerada" \in DOMAIN last'.corpo =>
                /\ Len(last'.escritas) = 1
                /\ last'.escritas[1] =
                      [op |-> "set", codigo |-> last'.corpo.licenca_gerada, ok |-> TRUE] ]_vars

\* C8 witness: the second licence was issued after its first draw collided.
C8_Witness ==
    /\ Emitiu
    /\ last.tentativas = 2
    /\ Cardinality(DOMAIN store) = 2

\* C9: with the store answering and the email accepted, a webhook request
\* whose notification resolves to status 3 or 4 with a purchaser email adds
\* one record, with status 'ativo', and reports its code; with any other
\* status it changes nothing and answers ok=true, ignored=true.
C9_So3e4Emitem ==
    [][ PassoWebhook /\ ~last'.info.nulo /\ last'.info.email \notin {None, ""} =>
          IF last'.info.status \in StatusPagos
          THEN db /\ last'.falha = "nenhuma" =>
                 /\ last'.http = 200
                 /\ "licenca_gerada" \in DOMAIN last'.corpo
                 /\ LET c == last'.corpo.licenca_gerada
                    IN  /\ c \notin DOMAIN store
                        /\ DOMAIN store' = DOMAIN store \cup {c}
                        /\ store'[c].status = TxtAtivo
                        /\ store'[c].email = last'.info.email
          ELSE /\ last'.http = 200
               /\ last'.corpo = [ok |-> TRUE, ignored |-> TRUE, status |-> last'.info.status]
               /\ store' = store
               /\ emails' = emails ]_vars

\* C9 witness: a status-7 notification was ignored after the status-3
\* notification N1 had its licence issued.
C9_Witness ==
    /\ last.op = "webhook"
    /\ ~last.info.nulo
    /\ last.info.status = <<"7">>
    /\ "ignored" \in DOMAIN last.corpo
    /\ \E c \in DOMAIN store : store[c].id_transacao_pagbank = "T1"

\* C10: validating a code that has no record changes nothing in the store and
\* issues no write; where the store answers the read, the response is
\* ok=false with LICENCA_INEXISTENTE.
C10_AusenteNaoEscreve ==
    [][ PassoValidar /\ last'.codigo \notin DOMAIN store =>
          /\ store' = store
          /\ last'.escritas = <<>>
          /\ db /\ last'.falha = "nenhuma" =>
                /\ last'.http = 200
                /\ last'.corpo.ok = FALSE
                /\ last'.corpo.motivo = TxtLicencaInexistente ]_vars

\* C10 witness: a code without record was validated while the store held
\* another record.
C10_Witness ==
    /\ last.op = "validar"
    /\ last.http = 200
    /\ last.corpo.motivo = TxtLicencaInexistente
    /\ last.codigo \notin DOMAIN store
    /\ DOMAIN store /= {}

\* C11: validating a record whose status is 'ativo' and whose expira_em is
\* later than the clock, the store answering the read, returns ok=true with
\* exactly the stored expira_em, writes nothing and leaves the record, status
\* included, and the rest of the store as they were.
C11_ValidaNaoAltera ==
    [][ /\ PassoValidar
        /\ last'.falha = "nenhuma"
        /\ last'.codigo \in DOMAIN store
        /\ store[last'.codigo].status = TxtAtivo
        /\ store[last'.codigo].expira_em > agora
        => /\ last'.http = 200
           /\ last'.corpo.ok = TRUE
           /\ last'.corpo.expira_em = <<"iso8601", store[last'.codigo].expira_em>>
           /\ last'.escritas = <<>>
           /\ store' = store ]_vars

\* An active licence that has not expired was validated and answered ok=true.
C11_Witness ==
    /\ last.op = "validar"
    /\ last.http = 200
    /\ last.corpo.ok = TRUE
    /\ last.codigo \in DOMAIN store
    /\ store[last.codigo].status = TxtAtivo
    /\ store[last.codigo].expira_em > agora

\* C12: every record the issuer has stored has expira_em = compra_em + the
\* configured validity window, and its expira_em is strictly later than its
\* compra_em, whatever LICENCE_DAYS is configured.
C12_ExpiraDepoisDaCompra ==
    \A c \in DOMAIN store :
        /\ store[c].expira_em = store[c].compra_em + DEFAULT_LICENCE_DAYS
        /\ store[c].expira_em > store[c].compra_em

\* The reason a webhook response gives, if it gives one.
Motivo(corpo) == IF "motivo" \in DOMAIN corpo THEN corpo.motivo ELSE "sem motivo"

\* The response reports the notification as not paid.
Ignorado(corpo) == "ignored" \in DOMAIN corpo /\ corpo.ignored = TRUE

\* The lookup of the last webhook request gave no purchaser email.
SemEmail == last.info.email \in {None, ""}

PayloadDireto ==
    [content_type |-> "application/json", forma |-> "json",
     campos |-> [status |-> "PAID", transaction_id |-> "T1", customer_email |-> "a@b.com"]]

PassoGravar(w) == req[w].fase = "gravar" /\ req'[w].fase = "enviar"

\* C15 as stated: under any interleaving of two concurrent webhook requests
\* no request writes its record under a code that already has one, so no
\* issued licence is overwritten.
C15_NuncaSobrescreve ==
    [][ \A w \in Workers : PassoGravar(w) => req[w].codigo \notin DOMAIN store ]_vars

\* C15: under any interleaving of two concurrent webhook requests, a request
\* writes its record under a code that had no record at its last probe:
\* licences issued before that probe are never overwritten, and a licence it
\* does overwrite was written by the other request after that probe.
C15_LivreNaSonda ==
    [][ \A w \in Workers :
          PassoGravar(w) =>
            /\ req[w].codigo \notin req[w].visto
            /\ req[w].visto \subseteq DOMAIN store
            /\ \A c \in req[w].visto : store'[c] = store[c]
            /\ store'[req[w].codigo].email = req[w].info.email ]_vars

\* Both requests drew the same code, both found it free, and both have
\* written their record under it.
C15_Witness ==
    /\ req["w1"].fase = "enviar"
    /\ req["w2"].fase = "enviar"
    /\ req["w1"].codigo = req["w2"].codigo
    /\ req["w1"].info.email /= req["w2"].info.email
    /\ req["w1"].codigo \notin req["w1"].visto \cup req["w2"].visto

\* C16: once a validation of a code has answered LICENCA_EXPIRADA, no later
\* validation of that code answers ok=true, whatever requests come between
\* and however far the clock (which never goes back) has moved.
C16_ExpiradaNaoVolta ==
    [][ /\ PassoValidar
        /\ last'.codigo \in reportadas
        /\ last'.http = 200
        => /\ last'.corpo.ok = FALSE
           /\ last'.corpo.motivo \in {TxtLicencaExpirada, TxtLicencaExpirado} ]_vars

\* A code that had been reported expired was validated again, after other
\* licences had been issued, and was refused as already expired.
C16_Witness ==
    /\ last.op = "validar"
    /\ last.http = 200
    /\ last.codigo \in reportadas
    /\ last.corpo.motivo = TxtLicencaExpirado
    /\ \E c \in DOMAIN store : store[c].status = TxtAtivo

\* The outcomes of a lookup that cannot confirm the payment
ConsultasFalhas == {"sem_credenciais", "excecao", "http", "xml"}

\* C17: when the provider lookup cannot confirm the payment (credentials
\* missing, transport failure, non-200 answer, unparseable answer), the
\* webhook issues no licence: no write is attempted, no email is sent, the
\* store is as it was, and the response names no licence.
C17_SemConfirmacaoNaoEmite ==
    [][ PassoWebhook /\ last'.consulta \in ConsultasFalhas =>
          /\ store' = store
          /\ emails' = emails
          /\ last'.escritas = <<>>
          /\ last'.http = 200
          /\ "licenca_gerada" \notin DOMAIN last'.corpo ]_vars

\* PagBank answered 404 to the lookup of a notification whose transaction is
\* paid and has an email, and the webhook reported the failed lookup.
C17_Witness ==
    /\ last.op = "webhook"
    /\ last.consulta = "http"
    /\ last.notification_code = "N1"
    /\ db
    /\ Motivo(last.corpo) = "FALHA_CONSULTA_PAGBANK"

\* C18: records are created only by issuance, changed only by the validator's
\* expiration update, and never deleted: the set of stored codes never
\* shrinks and grows only in a webhook step that wrote; a record changes only
\* in a validation step, only the record of the code validated, and only in
\* its status; every other field and every other record stay as they were.
C18_SoStatusMuda ==
    [][ /\ DOMAIN store \subseteq DOMAIN store'
        /\ DOMAIN store' /= DOMAIN store =>
              /\ PassoWebhook
              /\ Len(last'.escritas) = 1
              /\ last'.escritas[1].op = "set"
              /\ DOMAIN store' = DOMAIN store \cup {last'.escritas[1].codigo}
        /\ \A c \in DOMAIN store :
              store'[c] /= store[c] =>
                /\ PassoValidar
                /\ c = last'.codigo
                /\ last'.escritas = <<[op |-> "update", codigo |-> c, ok |-> TRUE]>>
                /\ store'[c] = [store[c] EXCEPT !.status = TxtExpirado]
        /\ PassoValidar => DOMAIN store' = DOMAIN store ]_vars

\* The validator has just expired one record while another is stored.
C18_Witness ==
    /\ last.op = "validar"
    /\ last.http = 200
    /\ last.escritas /= <<>>
    /\ last.codigo \in DOMAIN store
    /\ store[last.codigo].status = TxtExpirado
    /\ \E c \in DOMAIN store : c /= last.codigo

\* C19: an email is attempted only after the record has been written: every
\* code with an attempted delivery has a record in the store, addressed to
\* the email of that record; a delivery is attempted only by a webhook
\* request whose write succeeded, for the code it wrote; and a request whose
\* store write failed, or that made none, attempts no delivery.
C19_EmailSoDepoisDoRegistro ==
    /\ [](\A m \in emails : m[2] \in DOMAIN store /\ store[m[2]].email = m[1])
    /\ [][ PassoWebhook /\ (last'.escritas = <<>> \/ ~last'.escritas[1].ok) =>
             emails' = emails ]_vars
    /\ [][ emails' /= emails =>
             /\ PassoWebhook
             /\ Len(last'.escritas) = 1
             /\ last'.escritas[1].ok
             /\ last'.escritas[1].codigo \in DOMAIN store'
             /\ emails' = emails \cup {<<last'.info.email, last'.escritas[1].codigo>>} ]_vars

\* With SMTP configured and a delivery already made, the store refused the
\* write of a later request.
C19_Witness ==
    /\ last.op = "webhook"
    /\ last.falha = "set"
    /\ smtp_configurado
    /\ emails /= {}

\* The loop of process w1 is running / w1 has written under the code the
\* loop left, a code that had no record at the loop's last probe.
NoLaco == req["w1"].fase = "sondar"

Persistiu ==
    /\ req["w1"].fase = "enviar"
    /\ req["w1"].codigo \in DOMAIN store
    /\ req["w1"].codigo \notin req["w1"].visto

\* C20: the collision loop draws again for as long as the code drawn has a
\* record.  With fair draws and at least one code unused, the loop ends and
\* the record is persisted under a code that had no record at the last
\* probe; with every code of the keyspace taken, the loop never ends.
C20_LacoTermina ==
    /\ (NoLaco /\ DOMAIN store /= Codigos) ~> Persistiu
    /\ [][ PassoGravar("w1") => req["w1"].codigo \notin DOMAIN store ]_vars
    /\ [][ NoLaco /\ DOMAIN store = Codigos => NoLaco' /\ DOMAIN store' = Codigos ]_vars

\* The loop met a taken code, drew again, and the record was persisted under
\* the free code.
C20_Witness ==
    /\ Persistiu
    /\ req["w1"].redesenhou
    /\ req["w1"].visto /= {}

====
